---- MODULE Spec2Model ----
(***************************************************************************)
(* Model of the task-modification merge engine of                          *)
(* pkg/apis/pipeline/v1alpha2/resource_types.go: ApplyTaskModifier applied *)
(* by a caller, one modifier after another, to one TaskSpec.               *)
(*                                                                         *)
(* A Step is a record [Name, Image]: the code reads only Name, the Image   *)
(* stands for the rest of the container (the step's body).  A Volume is a  *)
(* record [Name, Data]: the code reads Name and compares the whole value   *)
(* with cmp.Diff.  A TaskSpec is [Steps, Volumes], two sequences (Go       *)
(* slices).  A TaskModifier is the InternalTaskModifier's three lists.     *)
(***************************************************************************)
EXTENDS Naturals, Sequences, FiniteSets

VARIABLES
    ts,      \* the TaskSpec the caller is amending: [Steps, Volumes]
    err,     \* what the last call of ApplyTaskModifier returned
    pc,      \* where the caller is: "authored", "once" (one call made), "twice"
    pre,     \* history: the TaskSpec as it was when the last call began
    tm,      \* history: the modifier of the last call
    first,   \* history: the TaskSpec before, the modifier and the error of the first call
    lookups  \* history: the resource types looked up in the registry, with the answers

vars == <<ts, err, pc, pre, tm, first, lookups>>

----------------------------------------------------------------------------
(* Bounds of the model. *)

\* the most steps and volumes one modifier contributes, all three lists together
MaxTm == 2

\* the most lookups of the resource type registry in one run
MaxLookups == 3

\* the values a resource type is looked up with: the six types, and three that are none
ResourceTypeUniverse ==
    { "git", "storage", "image", "cluster", "pullRequest", "cloudEvent",
      "bogus", "", "Git" }

\* the steps a modifier may contribute: three names, one body each
StepUniverse ==
    { [Name |-> "A", Image |-> "fetch"], [Name |-> "B", Image |-> "fetch"],
      [Name |-> "X", Image |-> "fetch"] }

\* the volumes a modifier may contribute: one name with two contents, and another name
VolumeUniverse ==
    { [Name |-> "creds", Data |-> "X"], [Name |-> "creds", Data |-> "Y"],
      [Name |-> "cfg", Data |-> "X"] }

SeqsUpTo(S, n) == UNION { [1..k -> S] : k \in 0..n }

\* InternalTaskModifier values within the bound
Modifiers ==
    { m \in [ StepsToPrepend : SeqsUpTo(StepUniverse, MaxTm),
              StepsToAppend  : SeqsUpTo(StepUniverse, MaxTm),
              Volumes        : SeqsUpTo(VolumeUniverse, MaxTm) ] :
        Len(m.StepsToPrepend) + Len(m.StepsToAppend) + Len(m.Volumes) <= MaxTm }

\* The TaskSpecs as authored: step names pairwise distinct, volume names pairwise
\* distinct.  The code compares names for equality only, so one list per length
\* stands for every authored list of that length.  An authored step has a body
\* of its own, which no modifier's step has.
AuthoredSteps ==
    { <<>>,
      << [Name |-> "A", Image |-> "user"] >>,
      << [Name |-> "A", Image |-> "user"], [Name |-> "B", Image |-> "user"] >> }

AuthoredVolumes == { <<>>, << [Name |-> "creds", Data |-> "X"] >> }

----------------------------------------------------------------------------
(* The resource type registry. *)

PipelineResourceTypeGit == "git"

PipelineResourceTypeStorage == "storage"

PipelineResourceTypeImage == "image"

PipelineResourceTypeCluster == "cluster"

PipelineResourceTypePullRequest == "pullRequest"

PipelineResourceTypeCloudEvent == "cloudEvent"

\* mutant: image is legal as an output too
AllowedOutputResources_withImage ==
    [ t \in { PipelineResourceTypeStorage, PipelineResourceTypeGit,
              PipelineResourceTypeImage } |-> TRUE ]

\* the map of lines 32-35
AllowedOutputResources ==
    [ t \in { PipelineResourceTypeStorage, PipelineResourceTypeGit } |-> TRUE ]

\* the slice of line 59
AllResourceTypes ==
    << PipelineResourceTypeGit, PipelineResourceTypeStorage, PipelineResourceTypeImage,
       PipelineResourceTypeCluster, PipelineResourceTypePullRequest,
       PipelineResourceTypeCloudEvent >>

\* the membership test on the map: Go's index of a missing key gives false
IsValidOutputType(t) ==
    IF t \in DOMAIN AllowedOutputResources THEN AllowedOutputResources[t] ELSE FALSE

\* the membership test on the slice
IsValidType(t) == \E i \in 1..Len(AllResourceTypes) : AllResourceTypes[i] = t

----------------------------------------------------------------------------
(* The code. *)

Nil == [kind |-> "nil", name |-> ""]

\* fmt.Errorf("Step %s cannot be added again", step.Name)
DuplicateStepName(n) == [kind |-> "DuplicateStepName", name |-> n]

\* fmt.Errorf("tried to add volume %s already added but with different contents", volume.Name)
ConflictingVolume(n) == [kind |-> "ConflictingVolume", name |-> n]

GetStepsToPrepend(m) == m.StepsToPrepend

GetStepsToAppend(m) == m.StepsToAppend

GetVolumes(m) == m.Volumes

\* cmp.Diff(x, y): the empty string exactly when x and y are deeply equal
cmpDiff(x, y) == IF x = y THEN "" ELSE "diff"

Min(S) == CHOOSE x \in S : \A y \in S : x <= y

\* mutant: compares the whole step, not its name
checkStepNotAlreadyAdded_wholeStep(s, steps) ==
    LET hits == { i \in 1..Len(steps) : s = steps[i] }
    IN  IF hits = {} THEN Nil ELSE DuplicateStepName(steps[Min(hits)].Name)

\* the error of the first step of `steps` that has the name of s, or nil
checkStepNotAlreadyAdded(s, steps) ==
    LET hits == { i \in 1..Len(steps) : s.Name = steps[i].Name }
    IN  IF hits = {} THEN Nil ELSE DuplicateStepName(steps[Min(hits)].Name)

\* mutant: a step is also checked against the steps before it in its own group
checkGroup_withinGroup(group, steps) ==
    LET bad == { i \in 1..Len(group) :
                   checkStepNotAlreadyAdded(group[i], SubSeq(group, 1, i - 1) \o steps) # Nil }
    IN  IF bad = {} THEN Nil
        ELSE checkStepNotAlreadyAdded(group[Min(bad)],
                                      SubSeq(group, 1, Min(bad) - 1) \o steps)

\* the loops of lines 134-138 and 142-146: the error of the first step of
\* `group` that checkStepNotAlreadyAdded refuses, or nil
checkGroup(group, steps) ==
    LET bad == { i \in 1..Len(group) : checkStepNotAlreadyAdded(group[i], steps) # Nil }
    IN  IF bad = {} THEN Nil ELSE checkStepNotAlreadyAdded(group[Min(bad)], steps)

\* mutant: an identical volume is not recognised as already added
RECURSIVE mergeVolumes_noDedup(_, _)
mergeVolumes_noDedup(volumes, tsVolumes) ==
    IF volumes = <<>> THEN [Volumes |-> tsVolumes, err |-> Nil]
    ELSE LET volume == Head(volumes)
             conflict == \E i \in 1..Len(tsVolumes) :
                            /\ volume.Name = tsVolumes[i].Name
                            /\ cmpDiff(volume, tsVolumes[i]) # ""
         IN  IF conflict
             THEN [Volumes |-> tsVolumes, err |-> ConflictingVolume(volume.Name)]
             ELSE mergeVolumes_noDedup(Tail(volumes), Append(tsVolumes, volume))

\* mutant: a volume whose name is taken is skipped whatever its content
RECURSIVE mergeVolumes_firstWins(_, _)
mergeVolumes_firstWins(volumes, tsVolumes) ==
    IF volumes = <<>> THEN [Volumes |-> tsVolumes, err |-> Nil]
    ELSE LET volume == Head(volumes)
             alreadyAdded == \E i \in 1..Len(tsVolumes) : volume.Name = tsVolumes[i].Name
         IN  mergeVolumes_firstWins(Tail(volumes),
                 IF alreadyAdded THEN tsVolumes ELSE Append(tsVolumes, volume))

\* mutant: an entry with the volume's name is a conflict even when identical
RECURSIVE mergeVolumes_nameIsConflict(_, _)
mergeVolumes_nameIsConflict(volumes, tsVolumes) ==
    IF volumes = <<>> THEN [Volumes |-> tsVolumes, err |-> Nil]
    ELSE LET volume == Head(volumes)
             conflict == \E i \in 1..Len(tsVolumes) : volume.Name = tsVolumes[i].Name
         IN  IF conflict
             THEN [Volumes |-> tsVolumes, err |-> ConflictingVolume(volume.Name)]
             ELSE mergeVolumes_nameIsConflict(Tail(volumes), Append(tsVolumes, volume))

\* mutant: a volume whose name is taken silently replaces the entry
RECURSIVE mergeVolumes_lastWins(_, _)
mergeVolumes_lastWins(volumes, tsVolumes) ==
    IF volumes = <<>> THEN [Volumes |-> tsVolumes, err |-> Nil]
    ELSE LET volume == Head(volumes)
             alreadyAdded == \E i \in 1..Len(tsVolumes) : volume.Name = tsVolumes[i].Name
         IN  mergeVolumes_lastWins(Tail(volumes),
                 IF alreadyAdded
                 THEN [i \in 1..Len(tsVolumes) |->
                          IF tsVolumes[i].Name = volume.Name THEN volume ELSE tsVolumes[i]]
                 ELSE Append(tsVolumes, volume))

\* mutant: a new volume is put before the entries of ts.Volumes
RECURSIVE mergeVolumes_newFirst(_, _)
mergeVolumes_newFirst(volumes, tsVolumes) ==
    IF volumes = <<>> THEN [Volumes |-> tsVolumes, err |-> Nil]
    ELSE LET volume == Head(volumes)
             conflict == \E i \in 1..Len(tsVolumes) :
                            /\ volume.Name = tsVolumes[i].Name
                            /\ cmpDiff(volume, tsVolumes[i]) # ""
             alreadyAdded == \E i \in 1..Len(tsVolumes) : volume.Name = tsVolumes[i].Name
         IN  IF conflict
             THEN [Volumes |-> tsVolumes, err |-> ConflictingVolume(volume.Name)]
             ELSE mergeVolumes_newFirst(Tail(volumes),
                      IF alreadyAdded THEN tsVolumes ELSE <<volume>> \o tsVolumes)

\* the volume loop of lines 149-165, one modifier volume per unfolding: the inner
\* loop returns the error at the first entry of ts.Volumes with the volume's name
\* and other contents; without one, the volume is appended unless an entry has its
\* name.  The volumes appended before an error stay.
RECURSIVE mergeVolumes(_, _)
mergeVolumes(volumes, tsVolumes) ==
    IF volumes = <<>> THEN [Volumes |-> tsVolumes, err |-> Nil]
    ELSE LET volume == Head(volumes)
             conflict == \E i \in 1..Len(tsVolumes) :
                            /\ volume.Name = tsVolumes[i].Name
                            /\ cmpDiff(volume, tsVolumes[i]) # ""
             alreadyAdded == \E i \in 1..Len(tsVolumes) : volume.Name = tsVolumes[i].Name
         IN  IF conflict
             THEN [Volumes |-> tsVolumes, err |-> ConflictingVolume(volume.Name)]
             ELSE mergeVolumes(Tail(volumes),
                      IF alreadyAdded THEN tsVolumes ELSE Append(tsVolumes, volume))

\* mutant: the prepend group is put after the existing steps
ApplyTaskModifier_prependAtEnd(t, m) ==
    LET e1 == checkGroup(GetStepsToPrepend(m), t.Steps)
        s1 == t.Steps \o GetStepsToPrepend(m)
        e2 == checkGroup(GetStepsToAppend(m), s1)
        s2 == s1 \o GetStepsToAppend(m)
        vm == mergeVolumes(GetVolumes(m), t.Volumes)
    IN  IF e1 # Nil THEN [ts |-> t, err |-> e1]
        ELSE IF e2 # Nil THEN [ts |-> [t EXCEPT !.Steps = s1], err |-> e2]
        ELSE [ts |-> [Steps |-> s2, Volumes |-> vm.Volumes], err |-> vm.err]

\* mutant: each prepend step is inserted as soon as it has been checked, and the
\* volumes are merged before the steps are looked at
ApplyTaskModifier_eager(t, m) ==
    LET vm == mergeVolumes(GetVolumes(m), t.Volumes)
        p  == GetStepsToPrepend(m)
        bad == { i \in 1..Len(p) : checkStepNotAlreadyAdded(p[i], t.Steps) # Nil }
        e1 == checkGroup(p, t.Steps)
        s1 == p \o t.Steps
        e2 == checkGroup(GetStepsToAppend(m), s1)
        s2 == s1 \o GetStepsToAppend(m)
    IN  IF e1 # Nil
        THEN [ts |-> [Steps |-> SubSeq(p, 1, Min(bad) - 1) \o t.Steps,
                      Volumes |-> vm.Volumes], err |-> e1]
        ELSE IF e2 # Nil THEN [ts |-> [Steps |-> s1, Volumes |-> vm.Volumes], err |-> e2]
        ELSE [ts |-> [Steps |-> s2, Volumes |-> vm.Volumes], err |-> vm.err]

\* mutant: transactional, an error leaves the TaskSpec as it was
ApplyTaskModifier_rollback(t, m) ==
    LET e1 == checkGroup(GetStepsToPrepend(m), t.Steps)
        s1 == GetStepsToPrepend(m) \o t.Steps
        e2 == checkGroup(GetStepsToAppend(m), s1)
        s2 == s1 \o GetStepsToAppend(m)
        vm == mergeVolumes(GetVolumes(m), t.Volumes)
    IN  IF e1 # Nil THEN [ts |-> t, err |-> e1]
        ELSE IF e2 # Nil THEN [ts |-> t, err |-> e2]
        ELSE IF vm.err # Nil THEN [ts |-> t, err |-> vm.err]
        ELSE [ts |-> [Steps |-> s2, Volumes |-> vm.Volumes], err |-> vm.err]

\* mutant: a conflict undoes the volumes this call added, the steps stay
ApplyTaskModifier_volumeRollback(t, m) ==
    LET e1 == checkGroup(GetStepsToPrepend(m), t.Steps)
        s1 == GetStepsToPrepend(m) \o t.Steps
        e2 == checkGroup(GetStepsToAppend(m), s1)
        s2 == s1 \o GetStepsToAppend(m)
        vm == mergeVolumes(GetVolumes(m), t.Volumes)
    IN  IF e1 # Nil THEN [ts |-> t, err |-> e1]
        ELSE IF e2 # Nil THEN [ts |-> [t EXCEPT !.Steps = s1], err |-> e2]
        ELSE [ts |-> [Steps |-> s2,
                      Volumes |-> IF vm.err # Nil THEN t.Volumes ELSE vm.Volumes],
              err |-> vm.err]

\* mutant: the append group is validated against the steps as the call found them
ApplyTaskModifier_appendChecksOriginal(t, m) ==
    LET e1 == checkGroup(GetStepsToPrepend(m), t.Steps)
        s1 == GetStepsToPrepend(m) \o t.Steps
        e2 == checkGroup(GetStepsToAppend(m), t.Steps)
        s2 == s1 \o GetStepsToAppend(m)
        vm == mergeVolumes(GetVolumes(m), t.Volumes)
    IN  IF e1 # Nil THEN [ts |-> t, err |-> e1]
        ELSE IF e2 # Nil THEN [ts |-> [t EXCEPT !.Steps = s1], err |-> e2]
        ELSE [ts |-> [Steps |-> s2, Volumes |-> vm.Volumes], err |-> vm.err]

\* mutant: the prepend group is put after the append group, the append group first
ApplyTaskModifier_swapGroups(t, m) ==
    LET e1 == checkGroup(GetStepsToPrepend(m), t.Steps)
        s1 == t.Steps \o GetStepsToPrepend(m)
        e2 == checkGroup(GetStepsToAppend(m), s1)
        s2 == GetStepsToAppend(m) \o s1
        vm == mergeVolumes(GetVolumes(m), t.Volumes)
    IN  IF e1 # Nil THEN [ts |-> t, err |-> e1]
        ELSE IF e2 # Nil THEN [ts |-> [t EXCEPT !.Steps = s1], err |-> e2]
        ELSE [ts |-> [Steps |-> s2, Volumes |-> vm.Volumes], err |-> vm.err]

\* mutant: the volumes are merged first, and a conflict returns before the steps
ApplyTaskModifier_volumesFirst(t, m) ==
    LET vm == mergeVolumes(GetVolumes(m), t.Volumes)
        e1 == checkGroup(GetStepsToPrepend(m), t.Steps)
        s1 == GetStepsToPrepend(m) \o t.Steps
        e2 == checkGroup(GetStepsToAppend(m), s1)
        s2 == s1 \o GetStepsToAppend(m)
    IN  IF vm.err # Nil THEN [ts |-> [t EXCEPT !.Volumes = vm.Volumes], err |-> vm.err]
        ELSE IF e1 # Nil THEN [ts |-> [t EXCEPT !.Volumes = vm.Volumes], err |-> e1]
        ELSE IF e2 # Nil THEN [ts |-> [Steps |-> s1, Volumes |-> vm.Volumes], err |-> e2]
        ELSE [ts |-> [Steps |-> s2, Volumes |-> vm.Volumes], err |-> vm.err]

\* mutant: the prepend group is inserted without validation
ApplyTaskModifier_noPrependCheck(t, m) ==
    LET s1 == GetStepsToPrepend(m) \o t.Steps
        e2 == checkGroup(GetStepsToAppend(m), s1)
        s2 == s1 \o GetStepsToAppend(m)
        vm == mergeVolumes(GetVolumes(m), t.Volumes)
    IN  IF e2 # Nil THEN [ts |-> [t EXCEPT !.Steps = s1], err |-> e2]
        ELSE [ts |-> [Steps |-> s2, Volumes |-> vm.Volumes], err |-> vm.err]

\* ApplyTaskModifier(ts, tm): the TaskSpec it leaves and the error it returns
ApplyTaskModifier(t, m) ==
    LET e1 == checkGroup(GetStepsToPrepend(m), t.Steps)
        s1 == GetStepsToPrepend(m) \o t.Steps
        e2 == checkGroup(GetStepsToAppend(m), s1)
        s2 == s1 \o GetStepsToAppend(m)
        vm == mergeVolumes(GetVolumes(m), t.Volumes)
    IN  IF e1 # Nil THEN [ts |-> t, err |-> e1]
        ELSE IF e2 # Nil THEN [ts |-> [t EXCEPT !.Steps = s1], err |-> e2]
        ELSE [ts |-> [Steps |-> s2, Volumes |-> vm.Volumes], err |-> vm.err]

----------------------------------------------------------------------------
(* The caller: it holds one authored TaskSpec and amends it with a first and *)
(* then a second modifier, whatever the first call returned.                *)

NoCall == [StepsToPrepend |-> <<>>, StepsToAppend |-> <<>>, Volumes |-> <<>>]

Init ==
    /\ ts \in [Steps : AuthoredSteps, Volumes : AuthoredVolumes]
    /\ err = Nil
    /\ pc = "authored"
    /\ pre = ts
    /\ tm = NoCall
    /\ first = [ts |-> ts, tm |-> NoCall, err |-> Nil]
    /\ lookups = <<>>

\* one call ApplyTaskModifier(&ts, m)
Call(m) ==
    LET r == ApplyTaskModifier(ts, m)
    IN  /\ ts' = r.ts
        /\ err' = r.err
        /\ pre' = ts
        /\ tm' = m

ApplyFirst ==
    /\ pc = "authored"
    /\ \E m \in Modifiers :
          /\ Call(m)
          /\ first' = [ts |-> ts, tm |-> m, err |-> ApplyTaskModifier(ts, m).err]
    /\ pc' = "once"
    /\ UNCHANGED lookups

ApplySecond ==
    /\ pc = "once"
    /\ \E m \in Modifiers : Call(m)
    /\ pc' = "twice"
    /\ UNCHANGED <<first, lookups>>

Next == ApplyFirst \/ ApplySecond

Spec == Init /\ [][Next]_vars

\* The validation layer asks the registry about one resource type after another.
InitRegistry ==
    /\ ts = [Steps |-> <<>>, Volumes |-> <<>>]
    /\ err = Nil
    /\ pc = "authored"
    /\ pre = ts
    /\ tm = NoCall
    /\ first = [ts |-> ts, tm |-> NoCall, err |-> Nil]
    /\ lookups = <<>>

Lookup ==
    /\ Len(lookups) < MaxLookups
    /\ \E t \in ResourceTypeUniverse :
          lookups' = Append(lookups, [type |-> t, valid |-> IsValidType(t),
                                      output |-> IsValidOutputType(t)])
    /\ UNCHANGED <<ts, err, pc, pre, tm, first>>

NextRegistry == Lookup

SpecRegistry == InitRegistry /\ [][NextRegistry]_vars

----------------------------------------------------------------------------
(* What the claims speak of. *)

Called == pc # "authored"

P == GetStepsToPrepend(tm)

A == GetStepsToAppend(tm)

V == GetVolumes(tm)

Range(seq) == { seq[i] : i \in 1..Len(seq) }

Names(seq) == { seq[i].Name : i \in 1..Len(seq) }

NamesDistinct(seq) ==
    \A i, j \in 1..Len(seq) : i # j => seq[i].Name # seq[j].Name

\* a prepend step has the name of a step of spec.Steps as the call found it
PrependCollides == \E i \in 1..Len(P) : P[i].Name \in Names(pre.Steps)

\* an append step has the name of a step of spec.Steps as append validation finds it
AppendCollides == \E i \in 1..Len(A) : A[i].Name \in Names(P \o pre.Steps)

\* both step stages pass, the volume stage is reached
StepsPass == ~PrependCollides /\ ~AppendCollides

\* what spec.Volumes can hold, at most, when the k-th modifier volume is examined
Held(k) == Range(pre.Volumes) \cup { V[j] : j \in 1..(k-1) }

\* the k-th modifier volume has the name of one of `held` and other contents
ClashWith(k, held) == \E w \in held : w.Name = V[k].Name /\ w # V[k]

Clashes == { k \in 1..Len(V) : ClashWith(k, Held(k)) }

\* the modifier volumes the loop examines before it returns the error
FirstClash == Min(Clashes)

\* the entries of spec.Volumes with name n
Entries(n) == { i \in 1..Len(ts.Volumes) : ts.Volumes[i].Name = n }

\* the first volume with name n that was put into spec.Volumes
FirstAdded(n) ==
    IF n \in Names(pre.Volumes)
    THEN pre.Volumes[Min({ i \in 1..Len(pre.Volumes) : pre.Volumes[i].Name = n })]
    ELSE V[Min({ j \in 1..Len(V) : V[j].Name = n })]

\* the volumes among the first k of the modifier whose name is neither in
\* `held` nor earlier in the list, in the modifier's order
RECURSIVE NewNamed(_, _)
NewNamed(k, held) ==
    IF k = 0 THEN <<>>
    ELSE LET before == NewNamed(k - 1, held)
         IN  IF V[k].Name \in Names(held) \cup Names(before)
             THEN before ELSE Append(before, V[k])

\* the other order of the two calls: the second modifier, then the first
Swapped1 == ApplyTaskModifier(first.ts, tm)

Swapped2 == ApplyTaskModifier(Swapped1.ts, first.tm)

----------------------------------------------------------------------------
(* The claims. *)

\* C1: from a TaskSpec with pairwise distinct step names, after any sequence of
\* calls the step names of spec.Steps are pairwise distinct, also when a
\* modifier's own prepend or append group holds one name twice.
C1_StepNamesDistinct == NamesDistinct(ts.Steps)

\* C2: from a TaskSpec with pairwise distinct volume names, after any sequence of
\* calls, failed or not, no two entries of spec.Volumes have the same name, also
\* when a modifier's own volume list repeats a name.
C2_VolumeNamesDistinct == NamesDistinct(ts.Volumes)

\* a call whose volume list repeats a name with other contents has added the
\* first of the two, after an earlier call had added a volume too
C2_Witness ==
    /\ pc = "twice"
    /\ Len(pre.Volumes) > Len(first.ts.Volumes)
    /\ \E i, j \in 1..Len(V) : i < j /\ V[i].Name = V[j].Name /\ V[i] # V[j]
    /\ Len(ts.Volumes) > Len(pre.Volumes)

\* C3: when the step names of spec.Steps, of the prepend group and of the append
\* group are pairwise disjoint, the call returns no step error and spec.Steps is
\* prepend ++ original ++ append: the lengths add up, the prepend group is a
\* block before the original steps, and each group keeps its order.
C3_DisjointGroupsConcatenate ==
    ( /\ Called
      /\ Names(pre.Steps) \cap Names(P) = {}
      /\ Names(pre.Steps) \cap Names(A) = {}
      /\ Names(P) \cap Names(A) = {} )
    => /\ err.kind # "DuplicateStepName"
       /\ ts.Steps = P \o pre.Steps \o A
       /\ Len(ts.Steps) = Len(pre.Steps) + Len(P) + Len(A)
       /\ \A i \in 1..Len(P) : ts.Steps[i] = P[i]
       /\ \A i \in 1..Len(pre.Steps) : ts.Steps[Len(P) + i] = pre.Steps[i]
       /\ \A i \in 1..Len(A) : ts.Steps[Len(P) + Len(pre.Steps) + i] = A[i]

C3_Witness ==
    /\ Called
    /\ Names(pre.Steps) \cap Names(P) = {}
    /\ Names(pre.Steps) \cap Names(A) = {}
    /\ Names(P) \cap Names(A) = {}
    /\ Len(P) > 0 /\ Len(A) > 0 /\ Len(pre.Steps) > 0
    /\ Len(ts.Steps) = Len(pre.Steps) + Len(P) + Len(A)

\* C4: whenever a step of the prepend or of the append group has the name of a
\* step already in spec.Steps, the call returns the duplicate-step-name error and
\* no step of the group that failed validation is inserted; the steps that were
\* there, those of earlier calls included, remain.
C4_DuplicateStepRejected ==
    (Called /\ (PrependCollides \/ AppendCollides))
    => /\ err.kind = "DuplicateStepName"
       /\ err.name \in Names(pre.Steps) \cup Names(P)
       /\ ts.Steps = IF PrependCollides THEN pre.Steps ELSE P \o pre.Steps

\* the second call offers a step with the name of a step the first call inserted
C4_Witness ==
    /\ pc = "twice"
    /\ err.kind = "DuplicateStepName"
    /\ err.name \in Names(pre.Steps) \ Names(first.ts.Steps)
    /\ err.name \in Names(P) \cup Names(A)

\* C5: when a prepend step has the name of a step of spec.Steps, the call returns
\* the duplicate-step-name error and leaves the whole TaskSpec as it was: neither
\* the append group nor the volumes are applied.
C5_PrependFailureLeavesSpec ==
    (Called /\ PrependCollides)
    => /\ err.kind = "DuplicateStepName"
       /\ ts = pre

\* the failing modifier also brings a volume or an append step the TaskSpec lacks
C5_Witness ==
    /\ Called
    /\ PrependCollides
    /\ \/ \E k \in 1..Len(V) : V[k].Name \notin Names(pre.Volumes)
       \/ \E i \in 1..Len(A) : A[i].Name \notin Names(pre.Steps)
    /\ ts = pre

\* C6: the merge is not transactional: when prepend validation passes and append
\* validation fails, the call returns the duplicate-step-name error with
\* spec.Steps = prepend ++ original, no append step inserted and spec.Volumes
\* unchanged; Steps [A, B] with prepend [X] and append [B] ends as [X, A, B].
C6_PrependStaysWhenAppendFails ==
    (Called /\ ~PrependCollides /\ AppendCollides)
    => /\ err.kind = "DuplicateStepName"
       /\ ts.Steps = P \o pre.Steps
       /\ ts.Volumes = pre.Volumes
       /\ ( /\ [i \in 1..Len(pre.Steps) |-> pre.Steps[i].Name] = <<"A", "B">>
            /\ [i \in 1..Len(P) |-> P[i].Name] = <<"X">>
            /\ [i \in 1..Len(A) |-> A[i].Name] = <<"B">> )
          => /\ [i \in 1..Len(ts.Steps) |-> ts.Steps[i].Name] = <<"X", "A", "B">>
             /\ err = DuplicateStepName("B")

\* the example: Steps [A, B], prepend [X], append [B]
C6_Witness ==
    /\ Called
    /\ [i \in 1..Len(pre.Steps) |-> pre.Steps[i].Name] = <<"A", "B">>
    /\ [i \in 1..Len(P) |-> P[i].Name] = <<"X">>
    /\ [i \in 1..Len(A) |-> A[i].Name] = <<"B">>
    /\ err.kind = "DuplicateStepName"

\* C7: a volume identical in name and content to one in spec.Volumes is a no-op:
\* a call whose volumes are all such returns no volume error and leaves
\* spec.Volumes as it was; a second call with the same volume-only modifier
\* leaves spec.Volumes as the first call left it, with no error unless the first
\* had one; and any call returns and leaves what it would without its volumes
\* that are identical to entries of spec.Volumes.
C7_IdenticalVolumeIdempotent ==
    /\ (Called /\ Len(V) > 0 /\ Range(V) \subseteq Range(pre.Volumes))
       => /\ err.kind # "ConflictingVolume"
          /\ ts.Volumes = pre.Volumes
    /\ (pc = "twice" /\ tm = first.tm /\ P = <<>> /\ A = <<>>)
       => /\ ts.Volumes = pre.Volumes
          /\ first.err = Nil => err = Nil
    /\ Called
       => LET IsNew(v) == v \notin Range(pre.Volumes)
              rest == [tm EXCEPT !.Volumes = SelectSeq(V, IsNew)]
          IN  ApplyTaskModifier(pre, rest) = [ts |-> ts, err |-> err]

\* the same volume-only modifier, which added a volume the first time, has been
\* applied a second time
C7_Witness ==
    /\ pc = "twice"
    /\ tm = first.tm
    /\ P = <<>> /\ A = <<>> /\ Len(V) > 0
    /\ Len(pre.Volumes) > Len(first.ts.Volumes)
    /\ err = Nil

\* C8 as stated: whenever a modifier volume has the name of a volume already in
\* spec.Volumes (from the author, an earlier call, or earlier in this call) and
\* other contents, the call returns the conflicting-volume error, and spec.Volumes
\* then holds exactly one entry with that name, the first one added.
C8_ConflictAlwaysReported ==
    (Called /\ \E k \in 1..Len(V) : ClashWith(k, Range(ts.Volumes)))
    => /\ err.kind = "ConflictingVolume"
       /\ \A k \in 1..Len(V) :
            ClashWith(k, Range(ts.Volumes))
            => /\ Cardinality(Entries(V[k].Name)) = 1
               /\ \A i \in Entries(V[k].Name) : ts.Volumes[i] = FirstAdded(V[k].Name)

\* C8, amended: whenever both step validations of the call pass and a modifier
\* volume has the name of a volume already in spec.Volumes (from the author, an
\* earlier call, or earlier in this call) and other contents, the call returns the
\* conflicting-volume error, naming the first such volume, and spec.Volumes then
\* holds exactly one entry with that name, the first one added; when a step
\* validation fails the call returns the duplicate-step-name error instead and
\* spec.Volumes is as it was.
C8_ConflictingVolumeRejected ==
    /\ (Called /\ StepsPass /\ Clashes # {})
       => /\ err = ConflictingVolume(V[FirstClash].Name)
          /\ \A k \in 1..Len(V) :
               ClashWith(k, Range(pre.Volumes)
                            \cup { V[j] : j \in 1..(Min({k, FirstClash}) - 1) })
               => /\ Cardinality(Entries(V[k].Name)) = 1
                  /\ \A i \in Entries(V[k].Name) : ts.Volumes[i] = FirstAdded(V[k].Name)
    /\ (Called /\ ~StepsPass)
       => /\ err.kind = "DuplicateStepName"
          /\ ts.Volumes = pre.Volumes

\* the clash is with a volume added earlier in the same call
C8_Witness ==
    /\ Called
    /\ StepsPass
    /\ Clashes # {}
    /\ V[FirstClash].Name \notin Names(pre.Volumes)
    /\ err.kind = "ConflictingVolume"

\* C9 as stated: when the call returns the conflicting-volume error, spec.Volumes
\* is equal to spec.Volumes before the call, whatever the modifier's volume list.
C9_VolumesUnchangedOnConflict ==
    (Called /\ err.kind = "ConflictingVolume") => ts.Volumes = pre.Volumes

\* C9, amended: when the call returns the conflicting-volume error, spec.Volumes is
\* spec.Volumes before the call followed by the modifier's volumes with a new name
\* that come before the conflicting one, in the modifier's order; it is unchanged
\* exactly when there is no such volume.
C9_VolumesBeforeConflictStay ==
    (Called /\ err.kind = "ConflictingVolume")
    => /\ Clashes # {}
       /\ ts.Volumes = pre.Volumes \o NewNamed(FirstClash - 1, pre.Volumes)
       /\ (ts.Volumes = pre.Volumes)
            <=> (\A k \in 1..(FirstClash - 1) : V[k].Name \in Names(pre.Volumes))

\* a new volume comes before the conflicting one
C9_Witness ==
    /\ Called
    /\ err.kind = "ConflictingVolume"
    /\ Len(ts.Volumes) > Len(pre.Volumes)
    /\ err.name \in Names(pre.Volumes)

\* C10: if the two modifiers succeed in the order applied and in the other order,
\* the two resulting spec.Volumes hold the same set of (name, content) entries.
C10_VolumeSetOrderIndependent ==
    ( /\ pc = "twice"
      /\ first.err = Nil /\ err = Nil
      /\ Swapped1.err = Nil /\ Swapped2.err = Nil )
    => Range(ts.Volumes) = Range(Swapped2.ts.Volumes)

\* both orders succeed, each modifier adds a volume, and the lists differ in order
C10_Witness ==
    /\ pc = "twice"
    /\ first.err = Nil /\ err = Nil
    /\ Swapped1.err = Nil /\ Swapped2.err = Nil
    /\ Len(pre.Volumes) > Len(first.ts.Volumes)
    /\ Len(ts.Volumes) > Len(pre.Volumes)
    /\ ts.Volumes # Swapped2.ts.Volumes

\* C11: the output-legal types are exactly storage and git, the valid types are
\* exactly the six; every output-legal type is valid; the membership test on
\* AllowedOutputResources is false for image, cluster, pullRequest, cloudEvent and
\* any unknown value, the one on AllResourceTypes for any value outside the six.
C11_RegistryMembership ==
    \A i \in 1..Len(lookups) :
        LET r == lookups[i]
        IN  /\ r.output <=> r.type \in {"storage", "git"}
            /\ r.valid <=> r.type \in {"git", "storage", "image", "cluster",
                                         "pullRequest", "cloudEvent"}
            /\ r.output => r.valid
            /\ r.type \in {"image", "cluster", "pullRequest", "cloudEvent", "bogus", "", "Git"}
                 => ~r.output
            /\ r.type \in {"bogus", "", "Git"} => ~r.valid

\* git, image and an unknown value have been looked up
C11_Witness ==
    /\ \E i \in 1..Len(lookups) : lookups[i].type = "git" /\ lookups[i].output
    /\ \E i \in 1..Len(lookups) :
          lookups[i].type = "image" /\ lookups[i].valid /\ ~lookups[i].output
    /\ \E i \in 1..Len(lookups) : lookups[i].type = "bogus" /\ ~lookups[i].valid

C13_DisjointPrependApplied ==
    (Called /\ ~PrependCollides)
    => /\ Len(ts.Steps) >= Len(P) + Len(pre.Steps)
       /\ SubSeq(ts.Steps, 1, Len(P) + Len(pre.Steps)) = P \o pre.Steps
       /\ err.kind = "DuplicateStepName" => AppendCollides
       /\ (~AppendCollides /\ Clashes = {}) => err = Nil

\* a prepend group is put before authored steps, and the call fails in the volume stage
C13_Witness ==
    /\ Called
    /\ ~PrependCollides
    /\ Len(P) > 0
    /\ Len(pre.Steps) > 0
    /\ err.kind = "ConflictingVolume"
    /\ SubSeq(ts.Steps, 1, Len(P) + Len(pre.Steps)) = P \o pre.Steps

\* seq holds block as a contiguous run
HasBlock(seq, block) ==
    \E off \in 0..Len(seq) :
        /\ off + Len(block) <= Len(seq)
        /\ SubSeq(seq, off + 1, off + Len(block)) = block

\* seq starts with prefix
StartsWith(seq, prefix) ==
    /\ Len(prefix) <= Len(seq)
    /\ SubSeq(seq, 1, Len(prefix)) = prefix

C15_CallsNest ==
    (pc = "twice" /\ first.err = Nil /\ err = Nil)
    => /\ ts.Steps = P \o GetStepsToPrepend(first.tm) \o first.ts.Steps
                       \o GetStepsToAppend(first.tm) \o A
       /\ pre.Steps = GetStepsToPrepend(first.tm) \o first.ts.Steps
                        \o GetStepsToAppend(first.tm)

\* the first modifier has put steps on both sides, the second one on one side
C15_Witness ==
    /\ pc = "twice"
    /\ first.err = Nil /\ err = Nil
    /\ Len(GetStepsToPrepend(first.tm)) > 0
    /\ Len(GetStepsToAppend(first.tm)) > 0
    /\ Len(P) + Len(A) > 0
    /\ Len(ts.Steps) = Len(first.ts.Steps) + 3

\* C16: the volume stage does not roll back the step stages: whenever the call
\* returns the conflicting-volume error, both step groups have been applied and
\* spec.Steps is prepend ++ original ++ append.
C16_StepsStayOnVolumeConflict ==
    (Called /\ err.kind = "ConflictingVolume")
    => /\ ts.Steps = P \o pre.Steps \o A
       /\ StepsPass

\* the failing call has inserted a step
C16_Witness ==
    /\ Called
    /\ err.kind = "ConflictingVolume"
    /\ Len(P) + Len(A) > 0
    /\ Len(pre.Steps) > 0
    /\ Len(ts.Steps) > Len(pre.Steps)

\* C17: whether the two modifiers can be applied without error does not depend on
\* their order: the first and the second call both succeed if and only if both
\* calls succeed with the second modifier applied first (a failed first call ends
\* either order).
C17_PairSuccessOrderIndependent ==
    pc = "twice"
    => ( (first.err = Nil /\ err = Nil)
         <=> (Swapped1.err = Nil /\ Swapped2.err = Nil) )

\* the first modifier prepends, the second appends; the order applied fails in its
\* second call only, and so does the other order
C17_Witness ==
    /\ pc = "twice"
    /\ first.err = Nil /\ err # Nil
    /\ Swapped1.err = Nil /\ Swapped2.err # Nil
    /\ Len(GetStepsToPrepend(first.tm)) > 0
    /\ Len(A) > 0

====
